---- MODULE Spec2Model ----
(***************************************************************************)
(* RAM Cache Manager (src/src/main.rs): the CacheManager struct and its    *)
(* eframe::App::update handler, one frame at a time.                       *)
(*                                                                         *)
(* Megabyte quantities are f32 in the source.  Every value of the model    *)
(* is an integer of magnitude below 2^24, where f32 addition, subtraction  *)
(* and comparison are exact, so integers stand for them.  Time is in       *)
(* whole seconds of the monotonic clock (Instant).                         *)
(*                                                                         *)
(* The source is compiled in one of two builds, selected by                *)
(* cfg(target_os = "windows"); the variable platform holds the build.      *)
(***************************************************************************)
EXTENDS Integers, Sequences, FiniteSets, TLC

-----------------------------------------------------------------------------
(* Bounds of the model *)

\* the clock is followed up to this many seconds
MaxTime == 32
\* slider positions offered to the user, counted from the low end of a slider
MaxSliderSteps == 2

-----------------------------------------------------------------------------
(* Program constants *)

\* Duration::from_secs(30) in should_auto_clean
Cooldown == 30
\* std::thread::sleep(Duration::from_secs(2)) in clean_ram_cache
CleanSleep == 2
\* Slider::step_by(128.0) and the guards' +/- 128.0
Step == 128
\* Slider range of the start threshold: 512.0..=total_ram_mb
StartSliderMin == 512
\* Slider range of the stop threshold: 256.0..=(total_ram_mb - 256.0)
StopSliderMin == 256
StopSliderMargin == 256
\* get_total_ram's default
DefaultTotalRam == 8192
\* Config::default()
DefaultStart == 2048
DefaultStop == 1024

Platforms == {"windows", "other"}

\* Option<T>: None is the empty sequence, Some(x) is <<x>>
None == << >>
Some(x) == <<x>>
IsSome(o) == Len(o) = 1
Unwrap(o) == o[1]

-----------------------------------------------------------------------------
(* Inputs from the environment *)

\* readings of the standby cache (MB) the OS counters deliver
Samples == {512, 3000}

\* seconds between the end of one frame and the start of the next
\* (request_repaint_after(1 s) asks for a repaint; the host decides when it
\* comes).  10 + 20 makes an elapsed time of exactly the cooldown possible
TickGaps == {10, 20}

\* Config::default()
DefaultConfig ==
    [start_threshold_mb |-> DefaultStart, stop_threshold_mb |-> DefaultStop,
     auto_clean_enabled |-> TRUE]

\* contents of cache_manager_config.json that parse as a Config; load_config
\* does not validate them
ConfigFiles ==
    { [start_threshold_mb |-> 1024, stop_threshold_mb |-> 2048, auto_clean_enabled |-> TRUE],
      [start_threshold_mb |-> 1024, stop_threshold_mb |-> 1024, auto_clean_enabled |-> FALSE],
      [start_threshold_mb |-> 0, stop_threshold_mb |-> 0 - 2 * Step, auto_clean_enabled |-> TRUE] }

VARIABLES
    platform,            \* the build: cfg(target_os = "windows") or not
    now,                 \* Instant::now(), seconds
    config_file,         \* cache_manager_config.json: None (missing or corrupt) or Some(Config)
    start_threshold_mb,  \* self.config.start_threshold_mb
    stop_threshold_mb,   \* self.config.stop_threshold_mb
    auto_clean_enabled,  \* self.config.auto_clean_enabled
    last_clean_time,     \* self.last_clean_time: Option<Instant>
    ram_cache_mb,        \* self.ram_cache_mb
    total_ram_mb,        \* self.total_ram_mb
    is_cleaning,         \* self.is_cleaning
    status_message,      \* self.status_message
    pc,                  \* position inside update
    start_threshold,     \* update's local start_threshold
    stop_threshold,      \* update's local stop_threshold
    caller,              \* who called the running (or last) clean_ram_cache
    sample_failed,       \* whether the last get_ram_cache fell through to 0.0
    sample_calls,        \* calls of get_ram_cache in this frame
    last_cycle_end,      \* when the last clean_ram_cache call returned
    status_writes,       \* assignments to self.status_message in this frame
    reclaim_target       \* amount handed to the cleanup commands by the last
                         \* clean_ram_cache call: they take fixed arguments

vars == <<platform, now, config_file, start_threshold_mb, stop_threshold_mb,
          auto_clean_enabled, last_clean_time, ram_cache_mb, total_ram_mb,
          is_cleaning, status_message, pc, start_threshold, stop_threshold,
          caller, sample_failed, sample_calls, last_cycle_end, status_writes,
          reclaim_target>>

config == <<start_threshold_mb, stop_threshold_mb, auto_clean_enabled>>
history == <<caller, sample_failed, sample_calls, last_cycle_end, status_writes,
             reclaim_target>>
locals == <<start_threshold, stop_threshold>>

-----------------------------------------------------------------------------
(* Pure helpers *)

\* get_total_ram: 8192.0 in builds other than windows; in the windows build
\* the wmic reading, or 8192.0 when it cannot be read.  total_ram_mb only
\* sets the high end of the sliders, which MaxSliderSteps cuts off below any
\* realistic reading, so the reading is represented by the default
get_total_ram(p) == {DefaultTotalRam}

\* get_ram_cache: every result a call can return.  windows: a reading of the
\* counter or of the wmic fallback, or 0.0 when both commands fail; other
\* builds: the constant 0.0
get_ram_cache(p) ==
    IF p = "windows"
    THEN {[mb |-> v, failed |-> FALSE] : v \in Samples} \cup {[mb |-> 0, failed |-> TRUE]}
    ELSE {[mb |-> 0, failed |-> FALSE]}

\* load_config().unwrap_or_default()
load_config(file) == IF IsSome(file) THEN Unwrap(file) ELSE DefaultConfig

\* the values an egui Slider over lo..=hi with step_by(Step) can deliver
\* (lo + k * Step), restricted to the MaxSliderSteps lowest steps
SliderValues(lo, hi) ==
    {lo + k * Step : k \in {j \in 0..MaxSliderSteps : lo + j * Step <= hi}}

\* Variants of StartGuard with a slip in them: the comparison made strict, and
\* the edited value pushed up by a step instead of being set above stop
StartGuard_Strict(start, stop) ==
    IF start < stop THEN stop + Step ELSE start

StartGuard_Increment(start, stop) ==
    IF start <= stop THEN start + Step ELSE start

\* update, start threshold guard: the value stored in config.start_threshold_mb
\* for the slider's value start and the current stop threshold
StartGuard(start, stop) ==
    IF start <= stop THEN stop + Step ELSE start

\* Variants of StopGuard with a slip in them: the comparison made strict, and
\* the edited value pulled down by a step instead of being set below start
StopGuard_Strict(stop, start) ==
    IF stop > start THEN start - Step ELSE stop

StopGuard_Decrement(stop, start) ==
    IF stop >= start THEN stop - Step ELSE stop

\* update, stop threshold guard: the value stored in config.stop_threshold_mb
\* for the slider's value stop and the current start threshold
StopGuard(stop, start) ==
    IF stop >= start THEN start - Step ELSE stop

\* one pass of both guards over a pair, as a frame without slider input makes it
ConfigGuard(pair) ==
    LET start == StartGuard(pair[1], pair[2])
        stop == StopGuard(pair[2], start)
    IN <<start, stop>>

\* Variants of should_auto_clean with a slip in them: the enabled flag not
\* consulted, and the metric compared strictly
should_auto_clean_IgnoringEnabled ==
    IF IsSome(last_clean_time) /\ now - Unwrap(last_clean_time) < Cooldown THEN FALSE
    ELSE ram_cache_mb >= start_threshold_mb

should_auto_clean_StrictMetric ==
    IF ~auto_clean_enabled THEN FALSE
    ELSE IF IsSome(last_clean_time) /\ now - Unwrap(last_clean_time) < Cooldown THEN FALSE
    ELSE ram_cache_mb > start_threshold_mb

\* should_auto_clean
should_auto_clean ==
    IF ~auto_clean_enabled THEN FALSE
    ELSE IF IsSome(last_clean_time) /\ now - Unwrap(last_clean_time) < Cooldown THEN FALSE
    ELSE ram_cache_mb >= start_threshold_mb

\* should_continue_cleaning (never called)
should_continue_cleaning == ram_cache_mb > stop_threshold_mb

-----------------------------------------------------------------------------
(* Initial state: CacheManager::new *)

Init ==
    /\ platform \in Platforms
    /\ now = 0
    /\ config_file \in {None} \cup {Some(c) : c \in ConfigFiles}
    /\ start_threshold_mb = load_config(config_file).start_threshold_mb
    /\ stop_threshold_mb = load_config(config_file).stop_threshold_mb
    /\ auto_clean_enabled = load_config(config_file).auto_clean_enabled
    /\ last_clean_time = None
    /\ ram_cache_mb = 0
    /\ total_ram_mb \in get_total_ram(platform)
    /\ is_cleaning = FALSE
    /\ status_message = "Ready"
    /\ pc = "frame"
    /\ start_threshold = 0
    /\ stop_threshold = 0
    /\ caller = "none"
    /\ sample_failed = FALSE
    /\ sample_calls = 0
    /\ last_cycle_end = None
    /\ status_writes = 0
    /\ reclaim_target = None

-----------------------------------------------------------------------------
(* update, one step at a time *)

\* self.ram_cache_mb = self.get_ram_cache()
Sample ==
    /\ pc = "frame"
    /\ \E r \in get_ram_cache(platform) :
        /\ ram_cache_mb' = r.mb
        /\ sample_failed' = r.failed
    /\ sample_calls' = sample_calls + 1
    /\ pc' = "decide"
    /\ UNCHANGED <<platform, now, config_file, config, last_clean_time, total_ram_mb,
                   is_cleaning, status_message, locals, caller, last_cycle_end,
                   status_writes, reclaim_target>>

\* entry of clean_ram_cache, called by who.  windows: is_cleaning = true and
\* the status message; other builds: nothing before the single assignment
CleanEnter(who) ==
    /\ pc' = "cleaning"
    /\ caller' = who
    /\ IF platform = "windows"
       THEN /\ is_cleaning' = TRUE
            /\ status_message' = "Cleaning RAM cache..."
            /\ status_writes' = status_writes + 1
       ELSE UNCHANGED <<is_cleaning, status_message, status_writes>>
    /\ UNCHANGED <<platform, now, config_file, config, last_clean_time, ram_cache_mb,
                   total_ram_mb, locals, sample_failed, sample_calls, last_cycle_end,
                   reclaim_target>>

\* if self.should_auto_clean() && !self.is_cleaning { self.clean_ram_cache(); }
AutoClean ==
    /\ pc = "decide"
    /\ should_auto_clean /\ ~is_cleaning
    /\ CleanEnter("auto")

AutoCleanSkip ==
    /\ pc = "decide"
    /\ ~(should_auto_clean /\ ~is_cleaning)
    /\ pc' = "start_slider"
    /\ UNCHANGED <<platform, now, config_file, config, last_clean_time, ram_cache_mb,
                   total_ram_mb, is_cleaning, status_message, locals, history>>

\* Variant of CleanFinish with a slip in it: the windows build returns without
\* clearing is_cleaning
CleanFinish_LeavesFlag ==
    /\ pc = "cleaning"
    /\ IF platform = "windows"
       THEN /\ now' = now + CleanSleep
            /\ \E r \in get_ram_cache(platform) :
                /\ ram_cache_mb' = r.mb
                /\ sample_failed' = r.failed
                /\ status_message' =
                      IF ram_cache_mb - r.mb > 0
                      THEN "Cleaned MB of RAM cache"
                      ELSE "Could not clean RAM cache (may need admin rights)"
            /\ sample_calls' = sample_calls + 1
            /\ last_clean_time' = Some(now')
            /\ UNCHANGED is_cleaning
            /\ reclaim_target' = None
       ELSE /\ status_message' = "RAM cleaning only supported on Windows"
            /\ UNCHANGED <<now, ram_cache_mb, sample_failed, sample_calls,
                           last_clean_time, is_cleaning, reclaim_target>>
    /\ status_writes' = status_writes + 1
    /\ last_cycle_end' = Some(now')
    /\ pc' = IF caller = "auto" THEN "start_slider" ELSE "spinner"
    /\ UNCHANGED <<platform, config_file, config, total_ram_mb, locals, caller>>

\* the rest of clean_ram_cache up to its return.  windows: the locals
\* initial_cache and stop_threshold (the second is never used), the three
\* commands, each with a fixed argument list, the 2 s sleep, the re-sample, the outcome message, last_clean_time and
\* is_cleaning = false; other builds: the status message only
CleanFinish ==
    /\ pc = "cleaning"
    /\ IF platform = "windows"
       THEN /\ now' = now + CleanSleep
            /\ \E r \in get_ram_cache(platform) :
                /\ ram_cache_mb' = r.mb
                /\ sample_failed' = r.failed
                /\ status_message' =
                      IF ram_cache_mb - r.mb > 0
                      THEN "Cleaned MB of RAM cache"
                      ELSE "Could not clean RAM cache (may need admin rights)"
            /\ sample_calls' = sample_calls + 1
            /\ last_clean_time' = Some(now')
            /\ is_cleaning' = FALSE
            /\ reclaim_target' = None
       ELSE /\ status_message' = "RAM cleaning only supported on Windows"
            /\ UNCHANGED <<now, ram_cache_mb, sample_failed, sample_calls,
                           last_clean_time, is_cleaning, reclaim_target>>
    /\ status_writes' = status_writes + 1
    /\ last_cycle_end' = Some(now')
    /\ pc' = IF caller = "auto" THEN "start_slider" ELSE "spinner"
    /\ UNCHANGED <<platform, config_file, config, total_ram_mb, locals, caller>>

\* let mut start_threshold = self.config.start_threshold_mb; the slider leaves
\* it alone or sets it to one of its values
StartSlider ==
    /\ pc = "start_slider"
    /\ start_threshold' \in
          {start_threshold_mb} \cup SliderValues(StartSliderMin, total_ram_mb)
    /\ pc' = "start_guard"
    /\ UNCHANGED <<platform, now, config_file, config, last_clean_time, ram_cache_mb,
                   total_ram_mb, is_cleaning, status_message, stop_threshold, history>>

\* if start_threshold <= stop_threshold_mb { start_threshold = stop_threshold_mb + 128.0 }
\* self.config.start_threshold_mb = start_threshold
StartThresholdGuard ==
    /\ pc = "start_guard"
    /\ start_threshold' = StartGuard(start_threshold, stop_threshold_mb)
    /\ start_threshold_mb' = start_threshold'
    /\ pc' = "stop_slider"
    /\ UNCHANGED <<platform, now, config_file, stop_threshold_mb, auto_clean_enabled,
                   last_clean_time, ram_cache_mb, total_ram_mb, is_cleaning,
                   status_message, stop_threshold, history>>

\* let mut stop_threshold = self.config.stop_threshold_mb; the slider leaves it
\* alone or sets it to one of its values
StopSlider ==
    /\ pc = "stop_slider"
    /\ stop_threshold' \in
          {stop_threshold_mb}
             \cup SliderValues(StopSliderMin, total_ram_mb - StopSliderMargin)
    /\ pc' = "stop_guard"
    /\ UNCHANGED <<platform, now, config_file, config, last_clean_time, ram_cache_mb,
                   total_ram_mb, is_cleaning, status_message, start_threshold, history>>

\* if stop_threshold >= start_threshold_mb { stop_threshold = start_threshold_mb - 128.0 }
\* self.config.stop_threshold_mb = stop_threshold
StopThresholdGuard ==
    /\ pc = "stop_guard"
    /\ stop_threshold' = StopGuard(stop_threshold, start_threshold_mb)
    /\ stop_threshold_mb' = stop_threshold'
    /\ pc' = "checkbox"
    /\ UNCHANGED <<platform, now, config_file, start_threshold_mb, auto_clean_enabled,
                   last_clean_time, ram_cache_mb, total_ram_mb, is_cleaning,
                   status_message, start_threshold, history>>

\* Variant of Checkbox with a slip in it: switching auto-clean on forgets the
\* time of the last cleanup
Checkbox_ResetsCooldown ==
    /\ pc = "checkbox"
    /\ auto_clean_enabled' \in BOOLEAN
    /\ last_clean_time' =
          IF auto_clean_enabled' /\ ~auto_clean_enabled THEN None ELSE last_clean_time
    /\ pc' = "save"
    /\ UNCHANGED <<platform, now, config_file, start_threshold_mb, stop_threshold_mb,
                   ram_cache_mb, total_ram_mb, is_cleaning, status_message, locals,
                   history>>

\* ui.checkbox(&mut self.config.auto_clean_enabled, ...): toggled or left alone
Checkbox ==
    /\ pc = "checkbox"
    /\ auto_clean_enabled' \in BOOLEAN
    /\ pc' = "save"
    /\ UNCHANGED <<platform, now, config_file, start_threshold_mb, stop_threshold_mb,
                   last_clean_time, ram_cache_mb, total_ram_mb, is_cleaning,
                   status_message, locals, history>>

\* save_config: what is written to the file
save_config == Some([start_threshold_mb |-> start_threshold_mb,
                     stop_threshold_mb |-> stop_threshold_mb,
                     auto_clean_enabled |-> auto_clean_enabled])

\* Save button clicked, save_config returns Ok
SaveOk ==
    /\ pc = "save"
    /\ config_file' = save_config
    /\ status_message' = "Configuration saved"
    /\ status_writes' = status_writes + 1
    /\ pc' = "manual"
    /\ UNCHANGED <<platform, now, config, last_clean_time, ram_cache_mb, total_ram_mb,
                   is_cleaning, locals, caller, sample_failed, sample_calls,
                   last_cycle_end, reclaim_target>>

\* Save button clicked, save_config returns Err (serialisation or write failed)
SaveErr ==
    /\ pc = "save"
    /\ status_message' = "Error"
    /\ status_writes' = status_writes + 1
    /\ pc' = "manual"
    /\ UNCHANGED <<platform, now, config_file, config, last_clean_time, ram_cache_mb,
                   total_ram_mb, is_cleaning, locals, caller, sample_failed,
                   sample_calls, last_cycle_end, reclaim_target>>

\* Save button not clicked
SaveSkip ==
    /\ pc = "save"
    /\ pc' = "manual"
    /\ UNCHANGED <<platform, now, config_file, config, last_clean_time, ram_cache_mb,
                   total_ram_mb, is_cleaning, status_message, locals, history>>

\* if clean_button.clicked() { self.clean_ram_cache(); }
ManualClean ==
    /\ pc = "manual"
    /\ CleanEnter("manual")

ManualSkip ==
    /\ pc = "manual"
    /\ pc' = "spinner"
    /\ UNCHANGED <<platform, now, config_file, config, last_clean_time, ram_cache_mb,
                   total_ram_mb, is_cleaning, status_message, locals, history>>

\* the spinner, the "last cleaned" label, request_repaint_after(1 s) and the
\* return of update; the next frame starts gap seconds later
EndFrame ==
    /\ pc = "spinner"
    /\ \E gap \in TickGaps :
        /\ now + gap <= MaxTime
        /\ now' = now + gap
    /\ pc' = "frame"
    /\ start_threshold' = 0
    /\ stop_threshold' = 0
    /\ caller' = "none"
    /\ sample_failed' = FALSE
    /\ sample_calls' = 0
    /\ status_writes' = 0
    /\ UNCHANGED <<platform, config_file, config, last_clean_time, ram_cache_mb,
                   total_ram_mb, is_cleaning, status_message, last_cycle_end,
                   reclaim_target>>

Next ==
    \/ Sample
    \/ AutoClean
    \/ AutoCleanSkip
    \/ CleanFinish
    \/ StartSlider
    \/ StartThresholdGuard
    \/ StopSlider
    \/ StopThresholdGuard
    \/ Checkbox
    \/ SaveOk
    \/ SaveErr
    \/ SaveSkip
    \/ ManualClean
    \/ ManualSkip
    \/ EndFrame

Spec == Init /\ [][Next]_vars

-----------------------------------------------------------------------------
(* Properties *)

\* a call of clean_ram_cache begins / returns in this step
CleanStarts == pc # "cleaning" /\ pc' = "cleaning"
CleanReturns == pc = "cleaning" /\ pc' # "cleaning"
\* the auto-clean decision of update calls clean_ram_cache in this step
AutoCleanStarts == pc = "decide" /\ pc' = "cleaning"

\* the cooldown after the last write of last_clean_time has passed
CooldownOver ==
    last_clean_time = None \/ now - Unwrap(last_clean_time) >= Cooldown

\* C1: an automatic cleanup cycle never starts while is_cleaning is set, and
\* never less than Cooldown seconds after the return of the previous
\* clean_ram_cache call, automatic or manual.
C1_AutoCleanNeverInsideCooldown ==
    [][AutoCleanStarts =>
          /\ ~is_cleaning
          /\ IsSome(last_cycle_end) => now - Unwrap(last_cycle_end) >= Cooldown]_vars

\* C2: while auto_clean_enabled is false, the only step that enters
\* clean_ram_cache is the manual button; the auto-clean decision never does,
\* whatever the metric and last_clean_time are.
C2_NoAutoCleanWhenDisabled ==
    [][(~auto_clean_enabled /\ CleanStarts) => (pc = "manual" /\ caller' = "manual")]_vars

\* C2's case: auto-clean is disabled, the metric sampled in this frame is at or
\* above the start threshold, the cooldown of an earlier cleanup has passed,
\* and the decision has been taken without a cleanup.
C2_Witness ==
    /\ pc = "start_slider"
    /\ caller = "none"
    /\ ~auto_clean_enabled
    /\ ram_cache_mb >= start_threshold_mb
    /\ IsSome(last_clean_time)
    /\ now - Unwrap(last_clean_time) >= Cooldown

\* positions of update after the start threshold guard has run in this frame
AfterStartGuard ==
    \/ pc \in {"stop_slider", "stop_guard", "checkbox", "save", "manual", "spinner"}
    \/ pc = "cleaning" /\ caller = "manual"

\* C3: once the guard has run in a frame, start_threshold_mb > stop_threshold_mb
\* holds strictly, whatever the sliders delivered.
C3_ThresholdsOrderedAfterGuard ==
    AfterStartGuard => start_threshold_mb > stop_threshold_mb

\* C3's case: with the default configuration in place (no file), the start
\* slider was set at or below the stop threshold 1024 and the guard has run
\* (1152 = 1024 + 128 is a value only the guard produces).
C3_Witness ==
    /\ pc = "stop_slider"
    /\ config_file = None
    /\ stop_threshold_mb = DefaultStop
    /\ start_threshold_mb = DefaultStop + Step

\* C4: the auto-clean decision of a frame calls clean_ram_cache if and only if
\* auto_clean_enabled is true, the metric sampled in this frame is >= the start
\* threshold, and last_clean_time is absent or at least Cooldown seconds old.
C4_AutoCleanIffAllThree ==
    [][pc = "decide" =>
          (AutoCleanStarts <=>
              /\ auto_clean_enabled
              /\ ram_cache_mb >= start_threshold_mb
              /\ CooldownOver)]_vars

\* C4's case: an automatic cleanup has started with the metric equal to the
\* start threshold and exactly Cooldown seconds after the previous cleanup.
C4_Witness ==
    /\ pc = "cleaning"
    /\ caller = "auto"
    /\ ram_cache_mb = start_threshold_mb
    /\ IsSome(last_clean_time)
    /\ now - Unwrap(last_clean_time) = Cooldown

\* C5: every clean_ram_cache call that returns has set last_clean_time to the
\* time of its return, so the auto-clean decision is off right after it.
C5_EveryCleanupResetsCooldown ==
    [][CleanReturns =>
          /\ last_clean_time' = Some(now')
          /\ ~should_auto_clean']_vars

\* C6: a manual cleanup, started in any state, sets last_clean_time to the time
\* of its return and re-samples the metric before it returns.
C6_ManualCleanResetsAndResamples ==
    [][(CleanReturns /\ caller = "manual") =>
          /\ last_clean_time' = Some(now')
          /\ sample_calls' = sample_calls + 1]_vars

\* C7 as stated: a start value set at or below the stop threshold is kept and
\* the stop threshold is pulled one step below it; a stop value set at or
\* above the start threshold is kept and the start threshold is pushed one
\* step above it.
C7_GuardMovesTheOtherSide ==
    [][/\ (pc = "start_guard" /\ start_threshold <= stop_threshold_mb) =>
              /\ start_threshold_mb' = start_threshold
              /\ stop_threshold_mb' = start_threshold - Step
       /\ (pc = "stop_guard" /\ stop_threshold >= start_threshold_mb) =>
              /\ stop_threshold_mb' = stop_threshold
              /\ start_threshold_mb' = stop_threshold + Step]_vars

\* C7 amended: a start value set at or below the stop threshold is replaced by
\* the stop threshold plus one step and the stop threshold keeps its value; a
\* stop value set at or above the start threshold is replaced by the start
\* threshold minus one step and the start threshold keeps its value.
C7_GuardMovesTheEditedSide ==
    [][/\ (pc = "start_guard" /\ start_threshold <= stop_threshold_mb) =>
              /\ start_threshold_mb' = stop_threshold_mb + Step
              /\ stop_threshold_mb' = stop_threshold_mb
       /\ (pc = "stop_guard" /\ stop_threshold >= start_threshold_mb) =>
              /\ stop_threshold_mb' = start_threshold_mb - Step
              /\ start_threshold_mb' = start_threshold_mb]_vars

\* C7's case: with the thresholds 0 and -256 loaded, the stop slider was set at
\* or above the start threshold and the guard has run (-128 = 0 - 128 is a
\* value only the guard produces).
C7_Witness ==
    /\ pc = "checkbox"
    /\ start_threshold_mb = 0
    /\ stop_threshold_mb = 0 - Step

\* each guard alone, as a function of the pair
StartGuardOnly(pair) == <<StartGuard(pair[1], pair[2]), pair[2]>>
StopGuardOnly(pair) == <<pair[1], StopGuard(pair[2], pair[1])>>

\* the pair a guard is applied to in this state: the slider's value with the
\* other stored threshold when a guard is about to run, the stored thresholds
\* otherwise
GuardedPairs ==
    IF pc = "start_guard" THEN {<<start_threshold, stop_threshold_mb>>}
    ELSE IF pc = "stop_guard" THEN {<<start_threshold_mb, stop_threshold>>}
    ELSE {<<start_threshold_mb, stop_threshold_mb>>}

\* C8: applying the guard to a pair twice gives what applying it once gives,
\* and applying it to a pair with start > stop changes nothing; for each of the
\* two guards and for the pass of both.
C8_GuardIdempotent ==
    \A pair \in GuardedPairs :
        /\ ConfigGuard(ConfigGuard(pair)) = ConfigGuard(pair)
        /\ StartGuardOnly(StartGuardOnly(pair)) = StartGuardOnly(pair)
        /\ StopGuardOnly(StopGuardOnly(pair)) = StopGuardOnly(pair)
        /\ pair[1] > pair[2] =>
              /\ ConfigGuard(pair) = pair
              /\ StartGuardOnly(pair) = pair
              /\ StopGuardOnly(pair) = pair

\* C8's case: the start slider delivered a value at or below the stop
\* threshold, so the guard is applied to a pair it changes.
C8_Witness ==
    /\ pc = "start_guard"
    /\ start_threshold \in SliderValues(StartSliderMin, total_ram_mb)
    /\ start_threshold <= stop_threshold_mb
    /\ ConfigGuard(<<start_threshold, stop_threshold_mb>>)
          = <<stop_threshold_mb + Step, stop_threshold_mb>>

\* C9: when get_ram_cache fails at the start of a frame, ram_cache_mb keeps
\* its previous value and the auto-clean decision of that frame starts no
\* cleanup.
C9_FailedSampleKeepsMetric ==
    [][/\ (pc = "frame" /\ sample_failed') => ram_cache_mb' = ram_cache_mb
       /\ (pc = "decide" /\ sample_failed) => ~AutoCleanStarts]_vars

\* a configuration document whose thresholds are strictly ordered
ValidConfig(c) == c.start_threshold_mb > c.stop_threshold_mb

C11_StartForcedAboveStop ==
    [][/\ (pc = "start_guard" /\ start_threshold <= stop_threshold_mb) =>
              /\ start_threshold' = stop_threshold_mb + Step
              /\ start_threshold_mb' = stop_threshold_mb + Step
              /\ stop_threshold_mb' = stop_threshold_mb
       /\ (pc = "stop_guard" /\ stop_threshold = stop_threshold_mb
              /\ start_threshold_mb = stop_threshold_mb + Step) =>
              UNCHANGED <<start_threshold_mb, stop_threshold_mb>>]_vars

\* C11's case: with the default configuration in place (no file), the start
\* slider was set at or below the stop threshold 1024 and both guards have
\* run: the thresholds are 1024 + 128 and 1024.
C11_Witness ==
    /\ pc = "checkbox"
    /\ config_file = None
    /\ start_threshold = DefaultStop + Step
    /\ start_threshold_mb = DefaultStop + Step
    /\ stop_threshold_mb = DefaultStop

\* C12: a cleanup cycle is one attempt: when clean_ram_cache returns,
\* is_cleaning is false and update goes on after the call; and while less than
\* Cooldown seconds have passed since that return, a metric still above the
\* stop threshold or at or above the start threshold starts no automatic
\* attempt.
C12_OneBoundedAttempt ==
    [][/\ CleanReturns =>
              /\ ~is_cleaning'
              /\ pc' = (IF caller = "auto" THEN "start_slider" ELSE "spinner")
       /\ (/\ pc = "decide"
           /\ IsSome(last_cycle_end)
           /\ now - Unwrap(last_cycle_end) < Cooldown
           /\ (should_continue_cleaning \/ ram_cache_mb >= start_threshold_mb)) =>
              ~AutoCleanStarts]_vars

\* C13: at most one cleanup invocation is in flight: no call of
\* clean_ram_cache, from the auto-clean decision or from the manual button,
\* begins while is_cleaning is set, and is_cleaning is set only while the one
\* call is running.
C13_OneInvocationInFlight ==
    [][/\ CleanStarts => ~is_cleaning
       /\ is_cleaning' => (pc' = "cleaning" /\ caller' \in {"auto", "manual"})]_vars

\* C13's case: the manual button has started a cleanup in the frame whose
\* auto-clean decision already ran one to completion: the second invocation
\* began only after the first had returned.
C13_Witness ==
    /\ pc = "cleaning"
    /\ caller = "manual"
    /\ is_cleaning
    /\ last_clean_time = Some(now)
    /\ last_cycle_end = Some(now)

\* the amount the spec's controller asks the executor to reclaim
AttemptedTarget(metric, stop) == IF metric - stop < 0 THEN 0 ELSE metric - stop

\* C14: a cleanup invocation hands the cleanup commands the target
\* ram_cache_mb - stop_threshold_mb, clamped to zero when negative (metric 2100
\* and stop 1024: 1076).
C14_TargetIsMetricMinusStop ==
    [][(CleanReturns /\ platform = "windows") =>
          reclaim_target' = Some(AttemptedTarget(ram_cache_mb, stop_threshold_mb))]_vars

\* C15: a cleanup that ran and reclaimed less than the amount requested
\* (metric - stop, clamped to zero) leaves the degraded-outcome message in
\* status_message, also when it reclaimed a positive amount, and update goes
\* on after the call.  Stated for the cleanups whose re-sample succeeded and
\* whose stop threshold is not negative, the plainest of the claim's cases.
C15_DegradedReclaimIsReported ==
    [][(/\ CleanReturns
        /\ platform = "windows"
        /\ ~sample_failed'
        /\ stop_threshold_mb >= 0
        /\ ram_cache_mb - ram_cache_mb'
              < AttemptedTarget(ram_cache_mb, stop_threshold_mb)) =>
          /\ status_message' = "Could not clean RAM cache (may need admin rights)"
          /\ pc' \in {"start_slider", "spinner"}]_vars

\* the messages clean_ram_cache leaves as the outcome of a cleanup
OutcomeMessages ==
    {"Cleaned MB of RAM cache",
     "Could not clean RAM cache (may need admin rights)",
     "RAM cleaning only supported on Windows"}

\* C16: every clean_ram_cache call that returns has written one outcome
\* message, and status_message is assigned at most once in a frame, whatever
\* combination of automatic cleanup, save and manual cleanup the frame holds.
C16_OneStatusWritePerFrame ==
    [][/\ CleanReturns => status_message' \in OutcomeMessages
       /\ status_writes' <= 1]_vars

\* C17: is_cleaning is set only inside a running clean_ram_cache call of the
\* windows build: it is false between frames, at the auto-clean decision and
\* at the spinner, so the decision is should_auto_clean alone.
C17_CleaningOnlyInsideCall ==
    /\ is_cleaning => (pc = "cleaning" /\ platform = "windows")
    /\ pc = "decide" => ((should_auto_clean /\ ~is_cleaning) <=> should_auto_clean)

\* C17's case: a manual cleanup of the windows build has just returned and
\* update is at the spinner with is_cleaning false.
C17_Witness ==
    /\ pc = "spinner"
    /\ platform = "windows"
    /\ caller = "manual"
    /\ last_clean_time = Some(now)
    /\ ~is_cleaning

\* positions of update after both threshold guards have run in this frame
AfterBothGuards ==
    \/ pc \in {"checkbox", "save", "manual", "spinner"}
    \/ pc = "cleaning" /\ caller = "manual"

ThresholdsOrdered == start_threshold_mb > stop_threshold_mb

C19_LastCleanTimeOnlyByCleanup ==
    [][last_clean_time' # last_clean_time =>
          /\ CleanReturns
          /\ IsSome(last_clean_time')
          /\ IsSome(last_clean_time) => Unwrap(last_clean_time') >= Unwrap(last_clean_time)]_vars

\* C19's case: the stored file has auto-clean off, a cleanup has set
\* last_clean_time, and in a frame without a cleanup the checkbox has just
\* switched auto-clean on inside the cooldown with the metric at or above the
\* start threshold: last_clean_time is still there and the decision stays off.
C19_Witness ==
    /\ pc = "save"
    /\ caller = "none"
    /\ auto_clean_enabled
    /\ IsSome(config_file) /\ ~Unwrap(config_file).auto_clean_enabled
    /\ IsSome(last_clean_time)
    /\ now - Unwrap(last_clean_time) < Cooldown
    /\ ram_cache_mb >= start_threshold_mb
    /\ ~should_auto_clean

====
